---- MODULE Spec2Model ----
(***************************************************************************)
(* State-machine model of the WebSocket relay in src/server.js: the        *)
(* `clients` registry (a Map from userId to {ws, tailscaleIp,              *)
(* pingInterval}) and the per-connection closure state (userId,            *)
(* pingInterval) together with the callbacks that touch them:              *)
(* wss.on('connection'), the setInterval callback, ws.on('message'),       *)
(* ws.on('close') and ws.on('error').                                      *)
(*                                                                         *)
(* Node runs every callback to completion, so each callback is one atomic  *)
(* action.  The transport (library `ws`) is the environment: it moves a    *)
(* channel's readyState out of OPEN before it emits 'close', it emits      *)
(* 'message' only for a channel that is OPEN (the server never calls       *)
(* ws.close() itself), and it emits 'close' once per channel.              *)
(***************************************************************************)
EXTENDS Integers, Sequences, FiniteSets, TLC

\* ---- bounds -------------------------------------------------------------
NumConns == 2

\* How many routed envelopes the two logs below record.
MaxLog == 2

Conns == 1 .. NumConns

\* ---- JavaScript values --------------------------------------------------
\* null and undefined are distinct tokens that no client string equals.
Null == "<null>"
Undefined == "<undefined>"

\* JavaScript truthiness of a string-or-null-or-undefined value.
Truthy(v) == v /= Null /\ v /= Undefined /\ v /= ""

\* obj.k : a missing property reads as undefined.
Field(obj, k) == IF k \in DOMAIN obj THEN obj[k] ELSE Undefined

\* JSON.stringify followed by the peer's JSON.parse: properties whose value
\* is undefined are dropped, every other property is kept.
Stringify(obj) == [k \in {j \in DOMAIN obj : obj[j] /= Undefined} |-> obj[k]]

\* ---- inputs -------------------------------------------------------------
\* Identities a client may supply; the empty string is a legal input.
Ids == {"", "alice", "bob"}

\* Values of the optional tailscaleIP property, when present.
Addrs == {"null", "", "100.64.0.7"}

\* The identities that register with a tailscaleIP property; the others
\* register without one.
AddrIds == {"alice"}

Froms == {"alice"}
Payloads == {"hi"}
Timestamps == {"1"}
Signals == {"offer"}

PlainRegisterFrames == [type : {"register"}, userId : Ids]

AddrRegisterFrames ==
    [type : {"register"}, userId : AddrIds, tailscaleIP : Addrs]

RegisterFrames == PlainRegisterFrames \cup AddrRegisterFrames

NamedRegisterFrames == [type : {"register"}, userId : Ids \ {""}]

MessageFrames ==
    [type : {"message"}, from : Froms, to : Ids, message : Payloads,
     timestamp : Timestamps]

SignalFrames ==
    [type : {"webrtc-signal"}, from : Froms, to : Ids]
        \cup [type : {"webrtc-signal"}, from : Froms, to : Ids, data : Signals]

\* A frame whose type is none of the three handled ones.
OtherFrames == {[type |-> "bye"]}

\* A frame that is not JSON: JSON.parse throws on it.
MalformedFrame == [malformed |-> "{oops"]

Frames ==
    RegisterFrames \cup MessageFrames \cup SignalFrames \cup OtherFrames
        \cup {MalformedFrame}

JSONParseThrows(frame) == "malformed" \in DOMAIN frame

\* ---- state --------------------------------------------------------------
VARIABLES
    readyState,    \* readyState[c]: "ABSENT" before the connection event
    userId,        \* the closure variable `userId` of connection c
    pingInterval,  \* TRUE while c's setInterval timer has not been cleared
    clients,       \* the Map `clients`, as the set of its entries
    sent,          \* what the last callback passed to ws.send, in order
    ev,            \* which callback ran last, and on which kind of frame
    arrived,       \* log: the routed envelopes received, in order of receipt
    wire           \* log: the envelopes forwarded for them, in order of sending

vars == <<readyState, userId, pingInterval, clients, sent, ev, arrived, wire>>

\* The two logs are history variables: they record what the callbacks
\* receive and send and are read by no callback.
logs == <<arrived, wire>>

Send(c, obj) == [ch |-> c, env |-> Stringify(obj)]

\* ---- the Map `clients` --------------------------------------------------
\* An entry is [userId, ws, tailscaleIp, pingInterval]; ws and pingInterval
\* are the connection whose channel and timer the entry references.
MapGet(m, k) == {r \in m : r.userId = k}

MapDelete(m, k) == {r \in m : r.userId /= k}

MapSet(m, k, v) == {r \in m : r.userId /= k} \cup {v}

Entry(uid, c, ip) ==
    [userId |-> uid, ws |-> c, tailscaleIp |-> ip, pingInterval |-> c]

\* ---- wss.on('connection') -----------------------------------------------
Connection(c) ==
    /\ readyState[c] = "ABSENT"
    /\ readyState' = [readyState EXCEPT ![c] = "OPEN"]
    /\ userId' = [userId EXCEPT ![c] = Null]
    /\ pingInterval' = [pingInterval EXCEPT ![c] = TRUE]
    /\ ev' = "connection"
    /\ sent' = <<>>
    /\ UNCHANGED clients

\* ---- the setInterval callback -------------------------------------------
PingSent(rs, c) ==
    IF rs[c] = "OPEN" THEN <<Send(c, [type |-> "ping"])>> ELSE <<>>

PingTick(c) ==
    /\ pingInterval[c]
    /\ ev' = "tick"
    /\ sent' = PingSent(readyState, c)
    /\ UNCHANGED <<readyState, userId, clients, pingInterval>>

\* ---- ws.on('message'): register ------------------------------------------
\* Variant: the literal 'null' is not tested for.
NormalizeIp_NoNullTest(data) ==
    IF Truthy(Field(data, "tailscaleIP"))
    THEN Field(data, "tailscaleIP")
    ELSE "N/A"

\* data.tailscaleIP && data.tailscaleIP !== 'null' ? data.tailscaleIP : 'N/A'
NormalizeIp(data) ==
    IF Truthy(Field(data, "tailscaleIP")) /\ Field(data, "tailscaleIP") /= "null"
    THEN Field(data, "tailscaleIP")
    ELSE "N/A"

\* Variant: the readyState test inverted.
IsDuplicate_Inverted(m, rs, uid) ==
    \E r \in MapGet(m, uid) : rs[r.ws] /= "OPEN"

\* Variant: any entry counts as a duplicate, whatever its channel's state.
IsDuplicate_AnyEntry(m, rs, uid) == MapGet(m, uid) /= {}

\* existingClient && existingClient.ws.readyState === WebSocket.OPEN
IsDuplicate(m, rs, uid) == \E r \in MapGet(m, uid) : rs[r.ws] = "OPEN"

\* Variant: the new entry is added with no duplicate test and no eviction.
RegisterClients_Append(m, rs, c, data) ==
    m \cup {Entry(data.userId, c, NormalizeIp(data))}

\* Variant: a connection that holds the identity itself may register it
\* again, which replaces its entry.
RegisterClients_SelfReplace(m, rs, c, data) ==
    IF IsDuplicate(m, rs, data.userId)
        /\ ~ \E r \in MapGet(m, data.userId) : r.ws = c
    THEN m
    ELSE MapSet(MapDelete(m, data.userId), data.userId,
                Entry(data.userId, c, NormalizeIp(data)))

\* The registry after the register branch: untouched on a duplicate,
\* otherwise clients.delete(userId) followed by clients.set(userId, {...}).
RegisterClients(m, rs, c, data) ==
    IF IsDuplicate(m, rs, data.userId)
    THEN m
    ELSE MapSet(MapDelete(m, data.userId), data.userId,
                Entry(data.userId, c, NormalizeIp(data)))

\* Variant: the duplicate branch falls through to the 'registered' reply.
RegisterSent_AlwaysRegistered(m, rs, c, data) ==
    <<Send(c, [type |-> "registered", userId |-> data.userId,
               tailscaleIp |-> NormalizeIp(data)])>>

\* What the register branch sends, all of it to the requesting channel.
RegisterSent(m, rs, c, data) ==
    IF IsDuplicate(m, rs, data.userId)
    THEN <<Send(c, [type |-> "error",
                    message |-> "User \"" \o data.userId
                                    \o "\" is already registered."])>>
    ELSE <<Send(c, [type |-> "registered", userId |-> data.userId,
                    tailscaleIp |-> NormalizeIp(data)])>>

\* ---- ws.on('message'): message and webrtc-signal --------------------------
\* Variant: the recipient's readyState is not tested.
Recipients_AnyEntry(m, rs, to) == {r.ws : r \in MapGet(m, to)}

\* recipient && recipient.ws.readyState === WebSocket.OPEN, as the set of
\* channels the envelope goes to (the entry found under `to`, when open).
Recipients(m, rs, to) == {r.ws : r \in {e \in MapGet(m, to) : rs[e.ws] = "OPEN"}}

\* Variant: `to` and `from` exchanged in the forwarded envelope.
ForwardedMessage_Swapped(data) ==
    [type |-> "message", to |-> Field(data, "from"), from |-> Field(data, "to"),
     message |-> Field(data, "message"), timestamp |-> Field(data, "timestamp")]

ForwardedMessage(data) ==
    [type |-> "message", to |-> Field(data, "to"), from |-> Field(data, "from"),
     message |-> Field(data, "message"), timestamp |-> Field(data, "timestamp")]

ForwardedSignal(data) ==
    [type |-> "webrtc-signal", from |-> Field(data, "from"),
     to |-> Field(data, "to"), data |-> Field(data, "data")]

\* MapGet yields at most the one entry a Map holds under a key, so the
\* sequence built here has length 0 or 1.
RECURSIVE SendToAll(_, _)
SendToAll(chs, obj) ==
    IF chs = {} THEN <<>>
    ELSE LET ch == CHOOSE x \in chs : TRUE
         IN <<Send(ch, obj)>> \o SendToAll(chs \ {ch}, obj)

\* Variant: a message is forwarded only if its `from` is a registered
\* identity with an open channel.
MessageSent_FromChecked(m, rs, data) ==
    IF Recipients(m, rs, Field(data, "from")) = {}
    THEN <<>>
    ELSE SendToAll(Recipients(m, rs, Field(data, "to")), ForwardedMessage(data))

\* Variant: the message is kept for a later delivery instead of being sent.
MessageSent_Deferred(m, rs, data) == <<>>

MessageSent(m, rs, data) ==
    SendToAll(Recipients(m, rs, Field(data, "to")), ForwardedMessage(data))

\* Variant: the log line that reads signalData.type runs before the send, so
\* an absent `data` throws before anything is sent.
SignalSent_LogFirst(m, rs, data) ==
    IF Field(data, "data") = Undefined
    THEN <<>>
    ELSE SendToAll(Recipients(m, rs, Field(data, "to")), ForwardedSignal(data))

\* When `data` is absent, signalData.type in the log line throws after the
\* send; the catch block logs it, which changes nothing modelled here.
SignalSent(m, rs, data) ==
    SendToAll(Recipients(m, rs, Field(data, "to")), ForwardedSignal(data))

\* ---- ws.on('message') -----------------------------------------------------
\* The branch of the callback a frame takes.
Branch(frame) ==
    IF JSONParseThrows(frame) THEN "malformed"
    ELSE IF frame.type \in {"register", "message", "webrtc-signal"}
    THEN frame.type
    ELSE "other"

\* Variant: a frame that is dropped is answered with an error envelope.
Dropped_ErrorReply(c) ==
    <<Send(c, [type |-> "error", message |-> "Invalid message."])>>

\* What the catch block, and the fall-through for a type that no branch
\* handles, send: they only log.
Dropped(c) == <<>>

OnMessage(c, frame) ==
    /\ readyState[c] = "OPEN"
    /\ ev' = Branch(frame)
    /\ IF JSONParseThrows(frame)
       THEN /\ sent' = Dropped(c)
            /\ UNCHANGED <<userId, clients>>
       ELSE IF frame.type = "register"
       THEN /\ userId' = [userId EXCEPT ![c] = frame.userId]
            /\ clients' = RegisterClients(clients, readyState, c, frame)
            /\ sent' = RegisterSent(clients, readyState, c, frame)
       ELSE IF frame.type = "message"
       THEN /\ sent' = MessageSent(clients, readyState, frame)
            /\ UNCHANGED <<userId, clients>>
       ELSE IF frame.type = "webrtc-signal"
       THEN /\ sent' = SignalSent(clients, readyState, frame)
            /\ UNCHANGED <<userId, clients>>
       ELSE /\ sent' = Dropped(c)
            /\ UNCHANGED <<userId, clients>>
    /\ UNCHANGED <<readyState, pingInterval>>

\* ---- ws.on('close') -------------------------------------------------------
\* if (userId) { clients.delete(userId); ... }
CloseClients(m, uid) == IF Truthy(uid) THEN MapDelete(m, uid) ELSE m

\* The transport sets readyState to CLOSED and emits 'close', once.
OnClose(c) ==
    /\ readyState[c] \in {"OPEN", "CLOSING"}
    /\ readyState' = [readyState EXCEPT ![c] = "CLOSED"]
    /\ pingInterval' = [pingInterval EXCEPT ![c] = FALSE]
    /\ clients' = CloseClients(clients, userId[c])
    /\ ev' = "close"
    /\ sent' = <<>>
    /\ UNCHANGED userId

\* ---- ws.on('error') -------------------------------------------------------
\* The transport moves the channel to CLOSING and emits 'error'; the
\* callback only logs.  'close' follows as a separate event.
OnError(c) ==
    /\ readyState[c] = "OPEN"
    /\ readyState' = [readyState EXCEPT ![c] = "CLOSING"]
    /\ ev' = "error"
    /\ sent' = <<>>
    /\ UNCHANGED <<userId, pingInterval, clients>>

\* ---- the transport --------------------------------------------------------
\* The peer's close frame arrives: the channel is CLOSING until the socket
\* ends and 'close' is emitted.  No callback of server.js runs.
ChannelClosing(c) ==
    /\ readyState[c] = "OPEN"
    /\ readyState' = [readyState EXCEPT ![c] = "CLOSING"]
    /\ ev' = "closing"
    /\ sent' = <<>>
    /\ UNCHANGED <<userId, pingInterval, clients>>

Init ==
    /\ readyState = [c \in Conns |-> "ABSENT"]
    /\ userId = [c \in Conns |-> Null]
    /\ pingInterval = [c \in Conns |-> FALSE]
    /\ clients = {}
    /\ sent = <<>>
    /\ ev = "start"
    /\ arrived = <<>>
    /\ wire = <<>>

Next ==
    \/ \E c \in Conns : Connection(c) /\ UNCHANGED logs
    \/ \E c \in Conns : PingTick(c) /\ UNCHANGED logs
    \/ \E c \in Conns, frame \in Frames : OnMessage(c, frame) /\ UNCHANGED logs
    \/ \E c \in Conns : OnClose(c) /\ UNCHANGED logs
    \/ \E c \in Conns : OnError(c) /\ UNCHANGED logs
    \/ \E c \in Conns : ChannelClosing(c) /\ UNCHANGED logs

Spec == Init /\ [][Next]_vars

\* The registry's part of the program: the connection life cycle and the
\* register envelopes.  The other callbacks and envelopes leave readyState,
\* userId, pingInterval and clients as they are.
NextRegistry ==
    \/ \E c \in Conns : Connection(c) /\ UNCHANGED logs
    \/ \E c \in Conns, frame \in RegisterFrames : OnMessage(c, frame) /\ UNCHANGED logs
    \/ \E c \in Conns : OnClose(c) /\ UNCHANGED logs
    \/ \E c \in Conns : OnError(c) /\ UNCHANGED logs
    \/ \E c \in Conns : ChannelClosing(c) /\ UNCHANGED logs

SpecRegistry == Init /\ [][NextRegistry]_vars

\* The router's part: the life cycle, registrations without an address under
\* the non-empty identities, and the two routed kinds of envelope (whose `to`
\* ranges over all of Ids).  The routing branches never test an identity for
\* truthiness.
RoutedFrames == NamedRegisterFrames \cup MessageFrames \cup SignalFrames

NextRoute ==
    \/ \E c \in Conns : Connection(c) /\ UNCHANGED logs
    \/ \E c \in Conns, frame \in RoutedFrames : OnMessage(c, frame) /\ UNCHANGED logs
    \/ \E c \in Conns : OnClose(c) /\ UNCHANGED logs
    \/ \E c \in Conns : OnError(c) /\ UNCHANGED logs
    \/ \E c \in Conns : ChannelClosing(c) /\ UNCHANGED logs

SpecRoute == Init /\ [][NextRoute]_vars

\* The registry's part together with the timers' callbacks.
NextTick ==
    \/ \E c \in Conns : Connection(c) /\ UNCHANGED logs
    \/ \E c \in Conns : PingTick(c) /\ UNCHANGED logs
    \/ \E c \in Conns, frame \in PlainRegisterFrames : OnMessage(c, frame) /\ UNCHANGED logs
    \/ \E c \in Conns : OnClose(c) /\ UNCHANGED logs
    \/ \E c \in Conns : OnError(c) /\ UNCHANGED logs
    \/ \E c \in Conns : ChannelClosing(c) /\ UNCHANGED logs

SpecTick == Init /\ [][NextTick]_vars

\* The registry's part together with the frames no branch handles.
DroppedFrames == OtherFrames \cup {MalformedFrame}

NextDecode ==
    \/ \E c \in Conns : Connection(c) /\ UNCHANGED logs
    \/ \E c \in Conns, frame \in PlainRegisterFrames : OnMessage(c, frame) /\ UNCHANGED logs
    \/ \E c \in Conns, frame \in DroppedFrames : OnMessage(c, frame) /\ UNCHANGED logs
    \/ \E c \in Conns : OnClose(c) /\ UNCHANGED logs
    \/ \E c \in Conns : OnError(c) /\ UNCHANGED logs
    \/ \E c \in Conns : ChannelClosing(c) /\ UNCHANGED logs

SpecDecode == Init /\ [][NextDecode]_vars

\* The router with its two logs: the life cycle, registrations as "bob", and
\* the message and webrtc-signal envelopes addressed to "bob", each recorded
\* on receipt together with what its callback sent.
LoggedRegisterFrames == {f \in PlainRegisterFrames : f.userId = "bob"}

LoggedFrames ==
    {f \in MessageFrames : f.to = "bob"}
        \cup {f \in SignalFrames : f.to = "bob" /\ "data" \in DOMAIN f}

\* The channels that hold identity X with an open channel.
LiveChannels(X) ==
    {r.ws : r \in {e \in clients : e.userId = X /\ readyState[e.ws] = "OPEN"}}

\* ws.on('message') on a routed envelope, recorded: the envelope goes to
\* `arrived` with its sender and the channels that held `to` when it came,
\* and what the callback passed to ws.send goes to `wire`, in order.
Routed(c, frame) ==
    /\ Len(arrived) < MaxLog
    /\ OnMessage(c, frame)
    /\ arrived' = Append(arrived, [conn |-> c, frame |-> frame,
                                   dest |-> LiveChannels(frame.to)])
    /\ wire' = wire \o [i \in 1 .. Len(sent') |->
                            [ch |-> sent'[i].ch, env |-> sent'[i].env,
                             origin |-> c]]

NextOrder ==
    \/ \E c \in Conns : Connection(c) /\ UNCHANGED logs
    \/ \E c \in Conns, frame \in LoggedRegisterFrames : OnMessage(c, frame) /\ UNCHANGED logs
    \/ \E c \in Conns, frame \in LoggedFrames : Routed(c, frame)
    \/ \E c \in Conns : OnClose(c) /\ UNCHANGED logs

SpecOrder == Init /\ [][NextOrder]_vars

\* ---- properties ---------------------------------------------------------
\* The registry holds an entry for X whose channel is open.
LiveRecord(X) == \E r \in clients : r.userId = X /\ readyState[r.ws] = "OPEN"

\* The registry holds an entry for X and no entry for X has an open channel.
StaleRecord(X) ==
    /\ \E r \in clients : r.userId = X
    /\ \A r \in clients : r.userId = X => readyState[r.ws] /= "OPEN"

DuplicateError(c, X) ==
    [ch |-> c,
     env |-> [type |-> "error",
              message |-> "User \"" \o X \o "\" is already registered."]]

\* C1: handling the close event of connection c removes no registry entry
\* that is bound to another connection's channel.
C1_CloseRemovesOnlyOwnRecord ==
    [][\A c \in Conns :
          OnClose(c) => \A r \in clients : r.ws /= c => r \in clients']_vars

\* C2: a register envelope for X from c, handled while the registry holds an
\* entry for X with an open channel, sends exactly one envelope, the error
\* naming X, to c and nothing else, and leaves the registry as it was.
C2_DuplicateRejected ==
    [][ev' = "register" => \A c \in Conns, f \in RegisterFrames :
          (LiveRecord(f.userId) /\ OnMessage(c, f))
              => /\ sent' = <<DuplicateError(c, f.userId)>>
                 /\ clients' = clients]_vars

C2_Witness ==
    \E c \in Conns, r \in clients :
        /\ ev = "register"
        /\ sent = <<[ch |-> c,
                     env |-> [type |-> "error",
                              message |-> "User \"alice\" is already registered."]]>>
        /\ r.userId = "alice" /\ r.ws /= c /\ readyState[r.ws] = "OPEN"
        /\ r.tailscaleIp = "100.64.0.7"

\* C3: in every reachable state, for every identity X, at most one registry
\* entry for X has an open channel.
C3_AtMostOneLiveRecord ==
    \A X \in Ids :
        Cardinality({r \in clients : r.userId = X /\ readyState[r.ws] = "OPEN"}) <= 1

\* Two open connections have both asked for the same identity and one holds it.
C3_Witness ==
    \E c, d \in Conns, r \in clients :
        /\ c /= d /\ readyState[c] = "OPEN" /\ readyState[d] = "OPEN"
        /\ userId[c] = userId[d] /\ r.userId = userId[c] /\ r.ws = c

\* C4: a register envelope for X from c, handled while the registry holds an
\* entry for X whose channel is not open, leaves exactly one entry for X,
\* bound to c, and sends c one 'registered' reply and no error.
C4_StaleReplaced ==
    [][ev' = "register" => \A c \in Conns, f \in RegisterFrames :
          (StaleRecord(f.userId) /\ OnMessage(c, f))
              => /\ Len(sent') = 1
                 /\ sent'[1].ch = c
                 /\ sent'[1].env.type = "registered"
                 /\ sent'[1].env.userId = f.userId
                 /\ \E r \in clients' : r.userId = f.userId /\ r.ws = c
                 /\ \A r \in clients' : r.userId = f.userId => r.ws = c]_vars

\* c has just been registered as an identity that a connection whose channel
\* has left OPEN, and whose close event is still to come, had asked for.
C4_Witness ==
    \E c, d \in Conns, r \in clients :
        /\ ev = "register" /\ Len(sent) = 1
        /\ sent[1].ch = c /\ sent[1].env.type = "registered"
        /\ sent[1].env.userId = r.userId /\ r.ws = c
        /\ d /= c /\ readyState[d] = "CLOSING" /\ userId[d] = r.userId

\* C5: once the close event of a channel has been handled, the registry
\* holds no entry bound to that channel.
C5_NoRecordAfterClose ==
    \A c \in Conns :
        readyState[c] = "CLOSED" => \A r \in clients : r.ws /= c

\* C6: for every identity X, the empty string included: handling the close
\* event of a connection that holds the entry for X leaves no entry for X
\* and stops that connection's timer, and a register envelope for X from
\* another open connection, handled while no open channel holds X,
\* is answered with 'registered'.
C6_CloseFreesIdentity ==
    [][/\ \A c \in Conns :
            OnClose(c)
                => /\ ~pingInterval'[c]
                   /\ \A r \in clients :
                        r.ws = c => \A q \in clients' : q.userId /= r.userId
       /\ ev' = "register" => \A d \in Conns, f \in RegisterFrames :
            (OnMessage(d, f) /\ ~LiveRecord(f.userId)
                /\ \E c \in Conns \ {d} :
                      readyState[c] = "CLOSED" /\ userId[c] = f.userId)
                => /\ Len(sent') = 1
                   /\ sent'[1].ch = d
                   /\ sent'[1].env.type = "registered"]_vars

\* C7: a message envelope, handled while the registry holds an entry for its
\* `to` with an open channel, sends exactly one envelope, {type: "message",
\* to, from, message, timestamp} with the four values it came with, to the
\* channel of that entry and nothing to any other channel.
C7_MessageDelivered ==
    [][ev' = "message" => \A c \in Conns, f \in MessageFrames :
          (LiveRecord(f.to) /\ OnMessage(c, f))
              => \E r \in clients :
                    /\ r.userId = f.to
                    /\ readyState[r.ws] = "OPEN"
                    /\ sent' = <<[ch |-> r.ws,
                                  env |-> [type |-> "message", to |-> f.to,
                                           from |-> f.from,
                                           message |-> f.message,
                                           timestamp |-> f.timestamp]]>>]_vars

\* alice's "hi" has just been delivered to the channel registered as bob.
C7_Witness ==
    \E c, d \in Conns :
        /\ c /= d /\ ev = "message"
        /\ Entry("alice", c, "N/A") \in clients
        /\ Entry("bob", d, "N/A") \in clients
        /\ sent = <<[ch |-> d,
                     env |-> [type |-> "message", to |-> "bob", from |-> "alice",
                              message |-> "hi", timestamp |-> "1"]]>>

\* C8: a message or webrtc-signal envelope, handled while the registry holds
\* no entry for its `to` with an open channel, sends nothing to any channel
\* and leaves the registry as it was.
C8_UnroutableDropped ==
    [][ev' \in {"message", "webrtc-signal"} =>
          \A c \in Conns, f \in MessageFrames \cup SignalFrames :
              (~LiveRecord(f.to) /\ OnMessage(c, f))
                  => sent' = <<>> /\ clients' = clients]_vars

\* A routed envelope has just been dropped while the registry holds an entry
\* whose channel is no longer open.
C8_Witness ==
    /\ ev \in {"message", "webrtc-signal"}
    /\ sent = <<>>
    /\ \E r \in clients : readyState[r.ws] /= "OPEN"
    /\ \E X \in Ids : StaleRecord(X)

\* C9: in every reachable state a connection's timer is active exactly when
\* the registry holds an entry for that connection.
C9_TimerIffRecord ==
    \A c \in Conns : pingInterval[c] <=> \E r \in clients : r.ws = c

C11_ErrorTearsDown ==
    [][\A c \in Conns :
          (OnError(c) /\ \E r \in clients : r.ws = c)
              => /\ \A q \in clients' : q.ws /= c
                 /\ ~pingInterval'[c]
                 /\ \A r \in clients : r.ws /= c => r \in clients']_vars

\* The envelope a recipient is to get for a routed frame.
ExpectedForward(f) ==
    IF f.type = "message"
    THEN [type |-> "message", to |-> f.to, from |-> f.from,
          message |-> f.message, timestamp |-> f.timestamp]
    ELSE [type |-> "webrtc-signal", from |-> f.from, to |-> f.to,
          data |-> f.data]

RECURSIVE MapSeq(_, _)
MapSeq(Op(_), q) ==
    IF q = <<>> THEN <<>> ELSE <<Op(Head(q))>> \o MapSeq(Op, Tail(q))

\* What channel ch was sent on behalf of sender s, in order of sending.
DeliveredFrom(s, ch) ==
    LET Mine(w) == w.origin = s /\ w.ch = ch
        Env(w) == w.env
    IN MapSeq(Env, SelectSeq(wire, Mine))

\* What sender s's envelopes, taken in order of receipt, owe channel ch.
OwedFrom(s, ch) ==
    LET Mine(a) == a.conn = s /\ ch \in a.dest
        Fwd(a) == ExpectedForward(a.frame)
    IN MapSeq(Fwd, SelectSeq(arrived, Mine))

\* C12: for every sender connection s and every channel ch, the message and
\* webrtc-signal envelopes forwarded to ch for s are, in order of sending,
\* the envelopes s sent to the identity ch held with an open channel, in
\* order of receipt.
C12_ForwardedInOrder ==
    \A s \in Conns, ch \in Conns : DeliveredFrom(s, ch) = OwedFrom(s, ch)

\* One sender's message and then its signal have gone to the same channel.
C12_Witness ==
    /\ Len(wire) >= 2
    /\ wire[1].origin = wire[2].origin
    /\ wire[1].ch = wire[2].ch
    /\ wire[1].ch /= wire[1].origin
    /\ wire[1].env.type = "message"
    /\ wire[2].env.type = "webrtc-signal"

\* The address C13 states: the supplied one unless absent or "null".
StatedIp(f) ==
    IF "tailscaleIP" \notin DOMAIN f \/ f.tailscaleIP = "null"
    THEN "N/A"
    ELSE f.tailscaleIP

\* The address as amended: the supplied one unless absent, empty or "null".
AmendedIp(f) ==
    IF "tailscaleIP" \notin DOMAIN f \/ f.tailscaleIP \in {"null", ""}
    THEN "N/A"
    ELSE f.tailscaleIP

Registered(c, X, ip) ==
    [ch |-> c, env |-> [type |-> "registered", userId |-> X, tailscaleIp |-> ip]]

\* C13, as stated: a register envelope from c that succeeds sends exactly one
\* envelope, {type: "registered", userId, tailscaleIp}, to c, with
\* tailscaleIp the supplied tailscaleIP unless that is absent or "null", when
\* it is "N/A"; the new entry stores the same value.
C13_RegisteredReply_AsStated ==
    [][ev' = "register" => \A c \in Conns, f \in RegisterFrames :
          (~LiveRecord(f.userId) /\ OnMessage(c, f))
              => /\ sent' = <<Registered(c, f.userId, StatedIp(f))>>
                 /\ Entry(f.userId, c, StatedIp(f)) \in clients']_vars

\* C13, amended: the same, with tailscaleIp the supplied tailscaleIP unless
\* that is absent, the empty string or "null", when it is "N/A".
C13_RegisteredReply ==
    [][ev' = "register" => \A c \in Conns, f \in RegisterFrames :
          (~LiveRecord(f.userId) /\ OnMessage(c, f))
              => /\ sent' = <<Registered(c, f.userId, AmendedIp(f))>>
                 /\ Entry(f.userId, c, AmendedIp(f)) \in clients']_vars

\* c has just been registered as "alice" with the address it supplied.
C13_Witness ==
    \E c \in Conns :
        /\ ev = "register"
        /\ sent = <<Registered(c, "alice", "100.64.0.7")>>
        /\ Entry("alice", c, "100.64.0.7") \in clients
        /\ userId[c] = "alice"

\* C14: a connection's timer is cancelled at its teardown, whichever of the
\* three triggers it has: the close event cancels a timer that was active,
\* the error event cancels it, a registration that replaces an entry cancels
\* the timer of the entry it replaces; and a timer fires only for a
\* connection whose channel is open.
C14_TimerCancelledAtTeardown ==
    [][/\ \A c \in Conns : OnClose(c) => pingInterval[c] /\ ~pingInterval'[c]
       /\ \A c \in Conns : OnError(c) => ~pingInterval'[c]
       /\ ev' = "register"
            => \A r \in clients : r \notin clients' => ~pingInterval'[r.ws]
       /\ \A c \in Conns : PingTick(c) => readyState[c] = "OPEN"]_vars

\* C15: handling a frame that is not JSON, or whose type is none of
\* register, message and webrtc-signal, sends nothing and leaves the
\* registry, every connection's userId, channel state and timer as they
\* were, so that every callback that could run before can run after.
C15_DroppedFrameChangesNothing ==
    [][ev' \in {"malformed", "other"} =>
          \A c \in Conns, f \in DroppedFrames :
              OnMessage(c, f)
                  => /\ sent' = <<>>
                     /\ clients' = clients
                     /\ userId' = userId
                     /\ readyState' = readyState
                     /\ pingInterval' = pingInterval]_vars

\* A registered connection's frame that is not JSON has just been dropped.
C15_Witness ==
    /\ ev = "malformed"
    /\ sent = <<>>
    /\ \E r \in clients : readyState[r.ws] = "OPEN" /\ userId[r.ws] = r.userId

\* The envelope a recipient is to get for a webrtc-signal frame: `data` is
\* there exactly when the frame has it.
ExpectedSignal(f) ==
    IF "data" \in DOMAIN f
    THEN [type |-> "webrtc-signal", from |-> f.from, to |-> f.to,
          data |-> f.data]
    ELSE [type |-> "webrtc-signal", from |-> f.from, to |-> f.to]

\* C16: a webrtc-signal envelope, with or without `data`, handled while the
\* registry holds an entry for its `to` with an open channel, sends exactly
\* one envelope, {type: "webrtc-signal", from, to, data} with the values it
\* came with, to the channel of that entry and nothing to any other channel.
C16_SignalDelivered ==
    [][ev' = "webrtc-signal" => \A c \in Conns, f \in SignalFrames :
          (LiveRecord(f.to) /\ OnMessage(c, f))
              => \E r \in clients :
                    /\ r.userId = f.to
                    /\ readyState[r.ws] = "OPEN"
                    /\ sent' = <<[ch |-> r.ws, env |-> ExpectedSignal(f)]>>]_vars

\* A signal without `data` has just been delivered to the channel of "bob".
C16_Witness ==
    \E d \in Conns :
        /\ ev = "webrtc-signal"
        /\ Entry("bob", d, "N/A") \in clients
        /\ readyState[d] = "OPEN"
        /\ sent = <<[ch |-> d,
                     env |-> [type |-> "webrtc-signal", from |-> "alice",
                              to |-> "bob"]]>>

\* C17: a register envelope is judged against the registry alone, whoever
\* sends it: the reply is the duplicate error exactly when the registry holds
\* an entry for the identity with an open channel; and when that entry is the
\* sender's own, the sender gets the duplicate error and the registry stays
\* as it was.
C17_ReRegisterIsDuplicate ==
    [][ev' = "register" => \A c \in Conns, f \in RegisterFrames :
          OnMessage(c, f)
              => /\ Len(sent') = 1
                 /\ sent'[1].env.type = "error" <=> LiveRecord(f.userId)
                 /\ (\E r \in clients : r.userId = f.userId /\ r.ws = c)
                      => /\ sent' = <<DuplicateError(c, f.userId)>>
                         /\ clients' = clients]_vars

\* c, registered as "alice" without an address, has just been refused a
\* second registration as "alice".
C17_Witness ==
    \E c \in Conns :
        /\ ev = "register"
        /\ readyState[c] = "OPEN"
        /\ userId[c] = "alice"
        /\ Entry("alice", c, "N/A") \in clients
        /\ sent = <<DuplicateError(c, "alice")>>

\* C18: a ping envelope is sent only by a timer tick, only to a channel that
\* is open at that tick, and only to a connection the registry holds an
\* entry for.
C18_PingOnlyToOpenRegistered ==
    \A i \in 1 .. Len(sent) :
        sent[i].env.type = "ping"
            => /\ ev = "tick"
               /\ readyState[sent[i].ch] = "OPEN"
               /\ \E r \in clients : r.ws = sent[i].ch

\* C19: in every reachable state no two registry entries under different
\* identities reference the same connection's channel.
C19_OneIdentityPerChannel ==
    \A r, q \in clients : r.ws = q.ws => r.userId = q.userId

\* C20: the channels a message or webrtc-signal envelope is forwarded to are
\* the channels that hold its `to` with an open channel, one envelope each,
\* and the registry stays as it was: whoever the sender is, registered or
\* not, and whatever `from` says.
C20_RoutingDependsOnToOnly ==
    [][ev' \in {"message", "webrtc-signal"} =>
          \A c \in Conns, f \in MessageFrames \cup SignalFrames :
              OnMessage(c, f)
                  => /\ clients' = clients
                     /\ {sent'[i].ch : i \in 1 .. Len(sent')} = LiveChannels(f.to)
                     /\ Len(sent') = Cardinality(LiveChannels(f.to))]_vars

\* A message whose `from`, "alice", is no connection's identity has just been
\* delivered to "bob" while an open connection has not registered.
C20_Witness ==
    \E c, d \in Conns :
        /\ ev = "message"
        /\ Len(sent) = 1 /\ sent[1].ch = d /\ sent[1].env.from = "alice"
        /\ clients = {Entry("bob", d, "N/A")}
        /\ c /= d /\ readyState[c] = "OPEN" /\ userId[c] = Null
====
